---- MODULE Spec2Model ----
(***************************************************************************)
(* Smart Finance (src/app.py): a Streamlit script.  Every user interaction *)
(* of a browser session re-runs main() from the top; each session runs its *)
(* script in a thread of its own, and all sessions share one process, so   *)
(* the module-level lru_cache of process_pdf and the user store are shared.*)
(*                                                                         *)
(* One action is one script run of one session (the whole of main() for    *)
(* the widget values of that run).  The only place a run can be overtaken  *)
(* by another session's run is the blocking call tabula.read_pdf inside a  *)
(* cache miss of process_pdf: such a run is split in two steps, the part   *)
(* up to the miss (PageRun, which leaves the session "extracting") and the *)
(* part from the return of tabula.read_pdf to the end of main()            *)
(* (ProcessPdfReturn).                                                     *)
(*                                                                         *)
(* The cache key is the uploaded-file object: a key is the identity of one *)
(* upload (a fresh id per upload, kept across the re-runs that show the    *)
(* same upload).  The activity collection is written, never read, by the   *)
(* script: an insert_one is recorded as an effect of the run.              *)
(***************************************************************************)
EXTENDS Integers, Sequences, FiniteSets, TLC

VARIABLES
    users,          \* db["users"]: the set of stored user documents
    authenticated,  \* st.session_state.authenticated, per session
    username,       \* st.session_state.username, per session
    uploaded,       \* the file_uploader's value per session: <<>> or <<file>>
    nextId,         \* identity the next uploaded-file object gets
    cache,          \* lru_cache of process_pdf: entries, least recently used first
    pc,             \* per session: "idle", or "extracting" inside tabula.read_pdf
    pending,        \* per session: the page of the run that is extracting
    calls,          \* history: per key, the read_pdf invocations and last result
    useOrder,       \* history: keys by last completed process_pdf call, oldest first
    run             \* what the last script run (or part of one) did and showed

vars == <<users, authenticated, username, uploaded, nextId, cache, pc, pending,
          calls, useOrder, run>>

-----------------------------------------------------------------------------
(* Bounds of the model and the inputs drawn from the outside.              *)

MaxUploads == 2

maxsize == 10

Sessions == {"s1", "s2"}

Usernames == {"ann", "bob"}

(* The names tried in the sign-up form; "bob" never signs up.              *)
NewUsernames == {"ann"}

(* The password typed in the sign-up form (its confirmation may differ).   *)
NewPasswords == {"pw1"}

Passwords == {"pw1", "pw2"}

Salts == {"saltA", "saltB"}

NoField == "-"

None == "None"

Idle == ""

Range(s) == {s[i] : i \in 1..Len(s)}

(* Column-oriented tables: the ordered columns with their dtypes, and the  *)
(* number of rows.                                                         *)
Col(n, t) == [name |-> n, dtype |-> t]

Frame(cols, n) == [columns |-> cols, nrows |-> n]

(* The documents a user can pick in the file_uploader, whose type filter   *)
(* ["csv", "pdf"] compares extensions without regard to case.              *)
Files ==
    { [name |-> <<"a", ".", "c", "s", "v">>, bytes |-> "csv_amounts"],
      [name |-> <<"t", ".", "c", "s", "v">>, bytes |-> "csv_text"],
      [name |-> <<"r", ".", "p", "d", "f">>, bytes |-> "pdf_report"],
      [name |-> <<"n", ".", "p", "d", "f">>, bytes |-> "pdf_scan"],
      [name |-> <<"x", ".", "p", "d", "f">>, bytes |-> "pdf_corrupt"],
      [name |-> <<"R", ".", "P", "D", "F">>, bytes |-> "pdf_report"] }

-----------------------------------------------------------------------------
(* Password hashing.                                                       *)

Digest(password, salt) == <<"bcrypt", salt, password>>

hash_password(password, salt) == [salt |-> salt, digest |-> Digest(password, salt)]

(* Variant: any password is accepted for a stored user.                   *)
verify_passwordPlain(password, hashed_password) == TRUE

verify_password(password, hashed_password) ==
    hash_password(password, hashed_password.salt) = hashed_password

(* users_collection.find_one({"username": u}): <<>> or <<document>>.        *)
find_one(u) ==
    LET found == {d \in users : d.username = u}
    IN  IF found = {} THEN <<>> ELSE <<CHOOSE d \in found : TRUE>>

-----------------------------------------------------------------------------
(* The two parsers, by what they return for the bytes of Files.            *)

read_csv(bytes) ==
    CASE bytes = "csv_amounts" ->
            Frame(<<Col("amount", "int64"), Col("category", "object")>>, 3)
      [] bytes = "csv_text" ->
            Frame(<<Col("label", "object")>>, 2)

(* tabula.read_pdf(file, pages="all", multiple_tables=True, stream=True):  *)
(* the list of tables, or an exception.                                    *)
read_pdf(bytes) ==
    CASE bytes = "pdf_report" ->
            [raised |-> FALSE,
             tables |-> << Frame(<<Col("category", "object"), Col("amount", "int64")>>, 2),
                           Frame(<<Col("category", "object"), Col("amount", "float64"),
                                   Col("note", "object")>>, 1) >>]
      [] bytes = "pdf_scan" -> [raised |-> FALSE, tables |-> <<>>]
      [] OTHER -> [raised |-> TRUE, tables |-> <<>>]

Promote(t1, t2) ==
    IF t1 = t2 THEN t1
    ELSE IF {t1, t2} \subseteq {"int64", "float64"} THEN "float64" ELSE "object"

(* A column absent from one of the two frames is filled with NaN there.    *)
WithGaps(t) == IF t = "int64" THEN "float64" ELSE t

DtypeIn(df, n) ==
    LET hit == {i \in 1..Len(df.columns) : df.columns[i].name = n}
    IN  IF hit = {} THEN <<>> ELSE <<df.columns[CHOOSE i \in hit : TRUE].dtype>>

Concat2(a, b) ==
    LET namesA == {a.columns[i].name : i \in 1..Len(a.columns)}
        left  == [i \in 1..Len(a.columns) |->
                    LET n == a.columns[i].name
                        t == a.columns[i].dtype
                        o == DtypeIn(b, n)
                    IN  Col(n, IF o = <<>> THEN WithGaps(t) ELSE Promote(t, o[1]))]
        right == SelectSeq(b.columns, LAMBDA c : c.name \notin namesA)
        extra == [i \in 1..Len(right) |-> Col(right[i].name, WithGaps(right[i].dtype))]
    IN  Frame(left \o extra, a.nrows + b.nrows)

RECURSIVE ConcatFrom(_, _)
ConcatFrom(acc, rest) ==
    IF rest = <<>> THEN acc ELSE ConcatFrom(Concat2(acc, Head(rest)), Tail(rest))

(* pd.concat(df_list, ignore_index=True) of a non-empty list.              *)
pd_concat(df_list) == ConcatFrom(Head(df_list), Tail(df_list))

-----------------------------------------------------------------------------
(* process_pdf and the lru_cache(maxsize=10) that wraps it.                *)

(* The body of process_pdf: what it returns and what it shows.             *)
process_pdf(bytes) ==
    LET r == read_pdf(bytes)
    IN  IF r.raised
        THEN [result |-> <<>>, shown |-> <<"error:Error reading PDF">>]
        ELSE IF r.tables # <<>>
             THEN [result |-> <<pd_concat(r.tables)>>, shown |-> <<>>]
             ELSE [result |-> <<>>, shown |-> <<"error:No tables found in the PDF.">>]

KeysOf(c) == {c[i].key : i \in 1..Len(c)}

CacheKeys == KeysOf(cache)

Entry(c, key) == c[CHOOSE i \in 1..Len(c) : c[i].key = key]

(* Variant: a hit leaves the order alone (first in, first out).           *)
LruHitNoMove(c, key) == c

(* A hit moves the entry to the most-recently-used end.                    *)
LruHit(c, key) ==
    Append(SelectSeq(c, LAMBDA e : e.key # key), Entry(c, key))

(* Variant: nothing is ever stored.                                       *)
LruInsertNothing(c, key, result) == c

(* After the wrapped call returned: whatever it returned is stored; a full *)
(* cache first drops its oldest entry.                                     *)
LruInsert(c, key, result) ==
    IF key \in KeysOf(c) THEN c
    ELSE IF Len(c) >= maxsize
         THEN Append(Tail(c), [key |-> key, result |-> result])
         ELSE Append(c, [key |-> key, result |-> result])

-----------------------------------------------------------------------------
(* load_data: the dispatch on the file name.                               *)

EndsWith(name, suffix) ==
    /\ Len(name) >= Len(suffix)
    /\ SubSeq(name, Len(name) - Len(suffix) + 1, Len(name)) = suffix

DotCsv == <<".", "c", "s", "v">>

DotPdf == <<".", "p", "d", "f">>

(* Variant: the dispatch looks at the last character only.                *)
LoadKindByEnding(name) ==
    IF EndsWith(name, <<"v">>) THEN "csv" ELSE "pdf"

LoadKind(name) ==
    IF EndsWith(name, DotCsv) THEN "csv"
    ELSE IF EndsWith(name, DotPdf) THEN "pdf"
    ELSE "unsupported"

-----------------------------------------------------------------------------
(* generate_recommendations and the Recommendations page.                  *)

Priorities == {"Savings", "Investments", "Expenses"}

(* Variant: the advice depends on the dataset.                            *)
generate_recommendationsByData(data, priority) ==
    IF data.nrows > 2 THEN <<"Allocate 20% of your income to savings.">> ELSE <<>>

generate_recommendations(data, priority) ==
    LET r0 == <<>>
    IN  IF priority = "Savings"
        THEN Append(Append(r0, "Allocate 20% of your income to savings."),
                    "Track your fixed expenses to maximize savings.")
        ELSE IF priority = "Investments"
        THEN Append(Append(r0, "Explore SIPs and mutual funds for growth."),
                    "Consider diversifying into low-risk bonds.")
        ELSE IF priority = "Expenses"
        THEN Append(Append(r0, "Identify areas where overspending occurs."),
                    "Set a monthly budget for each expense category.")
        ELSE r0

NoSel == [x |-> NoField, y |-> NoField, z |-> NoField, category |-> NoField]

(* Variant: the activity is logged before the recommendations are shown.  *)
display_recommendationsLogFirst(data, priority) ==
    LET recs == generate_recommendations(data, priority)
    IN  [shown |-> <<"radio:Select Priority", "insert_one">>
                     \o [i \in 1..Len(recs) |-> "markdown:recommendation"],
         recs  |-> recs,
         sel   |-> NoSel,
         fig   |-> <<>>,
         event |-> <<[type |-> "Recommendations Page", priority |-> priority]>>]

display_recommendations(data, priority) ==
    LET recs == generate_recommendations(data, priority)
    IN  [shown |-> <<"radio:Select Priority">>
                     \o [i \in 1..Len(recs) |-> "markdown:recommendation"]
                     \o <<"insert_one">>,
         recs  |-> recs,
         sel   |-> NoSel,
         fig   |-> <<>>,
         event |-> <<[type |-> "Recommendations Page", priority |-> priority]>>]

-----------------------------------------------------------------------------
(* create_dashboard.                                                       *)

ChartTypes == {"Bar Chart", "Line Chart", "Pie Chart", "3D Scatter Plot", "Area Chart"}

ColumnNames(data) == [i \in 1..Len(data.columns) |-> data.columns[i].name]

(* Variant: every column is offered as an axis.                           *)
numeric_columnsAll(data) == ColumnNames(data)

(* data.select_dtypes(include=["float", "int"]).columns.tolist()           *)
numeric_columns(data) ==
    LET sel == SelectSeq(data.columns, LAMBDA c : c.dtype \in {"float64", "int64"})
    IN  [i \in 1..Len(sel) |-> sel[i].name]

(* The values st.selectbox(options=...) can return.                        *)
Selectbox(options) == IF options = <<>> THEN {NoField} ELSE Range(options)

Fig(kind, x, y, z, names, color, palette) ==
    [kind |-> kind, x |-> x, y |-> y, z |-> z, names |-> names,
     color |-> color, palette |-> palette]

(* Variant: no check for numeric columns.                                 *)
create_dashboardNoGuard(data, chart_type, x_axis, y_axis, z_axis, category) ==
    [shown |-> <<"selectbox:Chart Type", "selectbox:X-Axis", "selectbox:Y-Axis",
                 "plotly_chart", "insert_one">>,
     recs  |-> <<>>,
     sel   |-> [NoSel EXCEPT !.x = x_axis, !.y = y_axis],
     fig   |-> <<Fig(chart_type, x_axis, y_axis, NoField, NoField, NoField, "default")>>,
     event |-> <<[type |-> "Chart Created", chart_type |-> chart_type]>>]

create_dashboard(data, chart_type, x_axis, y_axis, z_axis, category) ==
    IF numeric_columns(data) = <<>>
    THEN [shown |-> <<"selectbox:Chart Type",
                      "error:No numeric columns found for visualization.">>,
          recs |-> <<>>, sel |-> NoSel, fig |-> <<>>, event |-> <<>>]
    ELSE LET axes == <<"selectbox:Chart Type", "selectbox:X-Axis", "selectbox:Y-Axis">>
             more == CASE chart_type = "Pie Chart" -> <<"selectbox:Category Column">>
                       [] chart_type = "3D Scatter Plot" -> <<"selectbox:Z-Axis">>
                       [] OTHER -> <<>>
             fig  == CASE chart_type = "Bar Chart" ->
                            Fig(chart_type, x_axis, y_axis, NoField, NoField, NoField, "Bold")
                       [] chart_type = "Line Chart" ->
                            Fig(chart_type, x_axis, y_axis, NoField, NoField, NoField, "Pastel")
                       [] chart_type = "Pie Chart" ->
                            Fig(chart_type, NoField, y_axis, NoField, category, NoField, "Safe")
                       [] chart_type = "3D Scatter Plot" ->
                            Fig(chart_type, x_axis, y_axis, z_axis, NoField,
                                ColumnNames(data)[1], "default")
                       [] chart_type = "Area Chart" ->
                            Fig(chart_type, x_axis, y_axis, NoField, NoField, NoField, "default")
             sel  == [x |-> x_axis, y |-> y_axis,
                      z |-> IF chart_type = "3D Scatter Plot" THEN z_axis ELSE NoField,
                      category |-> IF chart_type = "Pie Chart" THEN category ELSE NoField]
         IN  [shown |-> axes \o more \o <<"plotly_chart", "insert_one">>,
              recs  |-> <<>>,
              sel   |-> sel,
              fig   |-> <<fig>>,
              event |-> <<[type |-> "Chart Created", chart_type |-> chart_type]>>]

-----------------------------------------------------------------------------
(* The state after the module has been loaded, and script runs.            *)

Blank(s, page) ==
    [session |-> s, page |-> page, call |-> "none", file |-> <<>>, form |-> <<>>,
     chart_type |-> NoField, sel |-> NoSel, shown |-> <<>>, result |-> <<>>, fig |-> <<>>, event |-> <<>>, recs |-> <<>>]

Init ==
    /\ users = {}
    /\ authenticated = [s \in Sessions |-> FALSE]
    /\ username = [s \in Sessions |-> None]
    /\ uploaded = [s \in Sessions |-> <<>>]
    /\ nextId = 1
    /\ cache = <<>>
    /\ pc = [s \in Sessions |-> "idle"]
    /\ pending = [s \in Sessions |-> Idle]
    /\ calls = <<>>
    /\ useOrder = <<>>
    /\ run = Blank("-", "start")

(* main(): the login page is shown instead of the application.             *)
ShowsLoginPage(s) == ~authenticated[s]

(* login_page(), option "Sign Up".                                         *)
SignUp(s) ==
    /\ pc[s] = "idle"
    /\ ShowsLoginPage(s)
    /\ \E new_username \in NewUsernames, new_password \in NewPasswords,
          confirm_password \in Passwords, salt \in Salts, signup_button \in BOOLEAN :
          LET form == [username |-> new_username, password |-> new_password]
              outcome ==
                  IF ~signup_button THEN "form"
                  ELSE IF new_password # confirm_password
                  THEN "error:Passwords do not match. Please try again."
                  ELSE IF find_one(new_username) # <<>>
                  THEN "warning:Username already exists. Try a different one."
                  ELSE "success:Account created successfully! Please log in."
          IN  /\ users' = IF outcome = "success:Account created successfully! Please log in."
                          THEN users \cup {[username |-> new_username,
                                            password |-> hash_password(new_password, salt)]}
                          ELSE users
              /\ run' = [Blank(s, "Sign Up") EXCEPT
                            !.form = IF signup_button THEN <<form>> ELSE <<>>,
                            !.shown = <<outcome>>]
    /\ UNCHANGED <<authenticated, username, uploaded, nextId, cache, pc, pending,
                   calls, useOrder>>

(* login_page(), option "Login".                                           *)
Login(s) ==
    /\ pc[s] = "idle"
    /\ ShowsLoginPage(s)
    /\ \E u \in Usernames, password \in Passwords, login_button \in BOOLEAN :
          LET user == find_one(u)
              ok == /\ login_button
                    /\ user # <<>>
                    /\ verify_password(password, user[1].password)
              outcome == IF ~login_button THEN "form"
                         ELSE IF ok THEN "success:Welcome back"
                         ELSE "error:Invalid credentials. Please try again."
          IN  /\ authenticated' = IF ok THEN [authenticated EXCEPT ![s] = TRUE]
                                  ELSE authenticated
              /\ username' = IF ok THEN [username EXCEPT ![s] = u] ELSE username
              /\ run' = [Blank(s, "Login") EXCEPT
                            !.form = IF login_button
                                     THEN <<[username |-> u, password |-> password]>>
                                     ELSE <<>>,
                            !.shown = <<outcome>>]
    /\ UNCHANGED <<users, uploaded, nextId, cache, pc, pending, calls, useOrder>>

(* What st.file_uploader can return in one run: the upload it already      *)
(* holds, nothing, or a new upload (a new object).                         *)
UploaderValues(s) ==
    {uploaded[s], <<>>}
    \cup (IF nextId <= MaxUploads
          THEN {<<[id |-> nextId, name |-> f.name, bytes |-> f.bytes]>> : f \in Files}
          ELSE {})

NoWidgets ==
    [chart_type |-> NoField, x |-> NoField, y |-> NoField, z |-> NoField,
     category |-> NoField, priority |-> NoField]

(* The widget values of the part of a page that follows load_data.         *)
Widgets(page, data) ==
    IF data = <<>> THEN {NoWidgets}
    ELSE IF page = "Recommendations"
    THEN {[NoWidgets EXCEPT !.priority = p] : p \in Priorities}
    ELSE LET num == Selectbox(numeric_columns(data[1]))
             all == Selectbox(ColumnNames(data[1]))
         IN  UNION { IF ct = "Pie Chart"
                     THEN {[NoWidgets EXCEPT !.chart_type = ct, !.x = x, !.y = y,
                                             !.category = c] :
                              x \in num, y \in num, c \in all}
                     ELSE IF ct = "3D Scatter Plot"
                     THEN {[NoWidgets EXCEPT !.chart_type = ct, !.x = x, !.y = y,
                                             !.z = z] :
                              x \in num, y \in num, z \in num}
                     ELSE {[NoWidgets EXCEPT !.chart_type = ct, !.x = x, !.y = y] :
                              x \in num, y \in num}
                   : ct \in ChartTypes }

(* main() from the return of load_data on.                                 *)
PageBody(page, data, w) ==
    IF data = <<>>
    THEN [shown |-> <<>>, recs |-> <<>>, sel |-> NoSel, fig |-> <<>>, event |-> <<>>]
    ELSE IF page = "Data Analytics"
    THEN LET d == create_dashboard(data[1], w.chart_type, w.x, w.y, w.z, w.category)
         IN  [d EXCEPT !.shown = <<"success:Data loaded successfully!", "dataframe">> \o @]
    ELSE display_recommendations(data[1], w.priority)

Touch(order, key) == Append(SelectSeq(order, LAMBDA k : k # key), key)

NoCall(bytes) == [bytes |-> bytes, reads |-> 0, last |-> <<>>]

CallOf(key, bytes) == IF key \in DOMAIN calls THEN calls[key] ELSE NoCall(bytes)

Record(key, entry) ==
    [k \in DOMAIN calls \cup {key} |-> IF k = key THEN entry ELSE calls[k]]

(* main() for an authenticated session, up to the end of the run or to the *)
(* call of tabula.read_pdf on a cache miss.                                *)
PageRun(s, page) ==
    /\ pc[s] = "idle"
    /\ ~ShowsLoginPage(s)
    /\ \E up \in UploaderValues(s) :
          LET kind == IF up = <<>> THEN "nofile" ELSE LoadKind(up[1].name)
              hit  == kind = "pdf" /\ up[1].id \in CacheKeys
              miss == kind = "pdf" /\ ~hit
              data == CASE kind = "csv" -> <<read_csv(up[1].bytes)>>
                        [] hit -> Entry(cache, up[1].id).result
                        [] OTHER -> <<>>
              pre  == CASE kind = "csv" -> <<"read_csv">>
                        [] hit -> <<"cache_hit">>
                        [] miss -> <<"read_pdf">>
                        [] kind = "unsupported" ->
                             <<"error:Unsupported file format. Please upload a CSV or PDF file.">>
                        [] OTHER -> <<>>
          IN  /\ uploaded' = [uploaded EXCEPT ![s] = up]
              /\ nextId' = IF up # <<>> /\ up[1].id = nextId THEN nextId + 1 ELSE nextId
              /\ cache' = IF hit THEN LruHit(cache, up[1].id) ELSE cache
              /\ pc' = IF miss THEN [pc EXCEPT ![s] = "extracting"] ELSE pc
              /\ pending' = IF miss THEN [pending EXCEPT ![s] = page] ELSE pending
              /\ calls' = IF hit
                          THEN Record(up[1].id,
                                      [CallOf(up[1].id, up[1].bytes) EXCEPT !.last = data])
                          ELSE IF miss
                          THEN Record(up[1].id,
                                      [CallOf(up[1].id, up[1].bytes) EXCEPT !.reads = @ + 1])
                          ELSE calls
              /\ useOrder' = IF hit THEN Touch(useOrder, up[1].id) ELSE useOrder
              /\ \E w \in Widgets(page, IF miss THEN <<>> ELSE data) :
                    LET body == PageBody(page, IF miss THEN <<>> ELSE data, w)
                    IN  run' = [Blank(s, page) EXCEPT
                                   !.call = IF hit THEN "hit" ELSE IF miss THEN "miss" ELSE "none",
                                   !.file = up,
                                   !.chart_type = IF body.shown = <<>> THEN NoField
                                                   ELSE w.chart_type,
                                   !.sel = body.sel,
                                   !.shown = pre \o body.shown,
                                   !.result = data,
                                   !.fig = body.fig,
                                   !.event = body.event,
                                   !.recs = body.recs]
    /\ UNCHANGED <<users, authenticated, username>>

DataAnalytics(s) == PageRun(s, "Data Analytics")

Recommendations(s) == PageRun(s, "Recommendations")

(* tabula.read_pdf returns inside process_pdf: the rest of process_pdf,    *)
(* the cache insert, and main() to its end.                                *)
ProcessPdfReturn(s) ==
    /\ pc[s] = "extracting"
    /\ LET f == uploaded[s][1]
           r == process_pdf(f.bytes)
       IN  /\ cache' = LruInsert(cache, f.id, r.result)
           /\ calls' = Record(f.id, [CallOf(f.id, f.bytes) EXCEPT !.last = r.result])
           /\ useOrder' = Touch(useOrder, f.id)
           /\ \E w \in Widgets(pending[s], r.result) :
                 LET body == PageBody(pending[s], r.result, w)
                 IN  run' = [Blank(s, pending[s]) EXCEPT
                                !.call = "return",
                                !.file = uploaded[s],
                                !.chart_type = IF body.shown = <<>> THEN NoField
                                                ELSE w.chart_type,
                                !.sel = body.sel,
                                !.shown = <<"read_pdf">> \o r.shown \o body.shown,
                                !.result = r.result,
                                !.fig = body.fig,
                                !.event = body.event,
                                !.recs = body.recs]
    /\ pc' = [pc EXCEPT ![s] = "idle"]
    /\ pending' = [pending EXCEPT ![s] = Idle]
    /\ UNCHANGED <<users, authenticated, username, uploaded, nextId>>

Next ==
    \E s \in Sessions :
        \/ SignUp(s)
        \/ Login(s)
        \/ DataAnalytics(s)
        \/ Recommendations(s)
        \/ ProcessPdfReturn(s)

Spec == Init /\ [][Next]_vars

(* A later state of the same process: "ann" signed up and uploaded the     *)
(* report in s1, then, in sessions now closed, maxsize - 2 scans without   *)
(* tables, each upload extracted once; s1 still shows the report, s2 has   *)
(* just connected.                                                         *)
EarlierKeys == [i \in 1..(maxsize - 1) |-> 100 + i]

EarlierBytes(k) == IF k = EarlierKeys[1] THEN "pdf_report" ELSE "pdf_scan"

InitWarm ==
    /\ users = {[username |-> "ann", password |-> hash_password("pw1", "saltA")]}
    /\ authenticated = [s \in Sessions |-> s = "s1"]
    /\ username = [s \in Sessions |-> IF s = "s1" THEN "ann" ELSE None]
    /\ uploaded = [s \in Sessions |->
                     IF s = "s1"
                     THEN <<[id |-> EarlierKeys[1], name |-> <<"r", ".", "p", "d", "f">>,
                             bytes |-> EarlierBytes(EarlierKeys[1])]>>
                     ELSE <<>>]
    /\ nextId = 1
    /\ cache = [i \in 1..(maxsize - 1) |->
                  [key |-> EarlierKeys[i],
                   result |-> process_pdf(EarlierBytes(EarlierKeys[i])).result]]
    /\ pc = [s \in Sessions |-> "idle"]
    /\ pending = [s \in Sessions |-> Idle]
    /\ calls = [k \in Range(EarlierKeys) |->
                  [bytes |-> EarlierBytes(k), reads |-> 1,
                   last |-> process_pdf(EarlierBytes(k)).result]]
    /\ useOrder = EarlierKeys
    /\ run = Blank("-", "start")

SpecWarm == InitWarm /\ [][Next]_vars

-----------------------------------------------------------------------------
(* Properties.                                                             *)

AppPages == {"Data Analytics", "Recommendations"}

Count(seq, x) == Cardinality({i \in 1..Len(seq) : seq[i] = x})

(* The cached key whose last completed call is the oldest.                 *)
LruKey ==
    useOrder[CHOOSE i \in 1..Len(useOrder) :
                /\ useOrder[i] \in CacheKeys
                /\ \A j \in 1..(i - 1) : useOrder[j] \notin CacheKeys]

(* A key is recent when fewer than maxsize other keys completed a call     *)
(* after its own last call: nothing has evicted it since.                  *)
Recent(k) ==
    \E i \in 1..Len(useOrder) : useOrder[i] = k /\ i > Len(useOrder) - maxsize

C1_Step ==
    (/\ run'.call = "return"
     /\ run'.file[1].id \notin CacheKeys
     /\ Len(cache) = maxsize)
    => /\ Len(cache') = maxsize
       /\ KeysOf(cache') = (CacheKeys \ {LruKey}) \cup {run'.file[1].id}
       /\ \A k \in CacheKeys \ {LruKey} : Entry(cache', k) = Entry(cache, k)

(* C1: the cache of process_pdf never holds more than 10 entries, and the  *)
(* return of a call for a new key into a cache of 10 entries evicts        *)
(* exactly the least recently used entry and keeps every other entry.      *)
C1_CacheBoundedLru == [](Len(cache) <= maxsize) /\ [][C1_Step]_vars

C1_Witness ==
    /\ run.call = "return"
    /\ Len(cache) = maxsize
    /\ EarlierKeys[1] \in CacheKeys
    /\ EarlierKeys[2] \notin CacheKeys

(* C2 as claimed: two completed extractions whose entries are both still   *)
(* cached never have byte-identical content (the second call for the same  *)
(* bytes would have been served without a new extraction).                 *)
C2_OncePerContent ==
    \A k1, k2 \in DOMAIN calls :
        (k1 # k2 /\ Recent(k1) /\ Recent(k2)) => calls[k1].bytes # calls[k2].bytes

C2_Step ==
    (/\ run'.call \in {"hit", "miss"}
     /\ Recent(run'.file[1].id))
    => /\ calls'[run'.file[1].id].reads = calls[run'.file[1].id].reads
       /\ run'.result = calls[run'.file[1].id].last

(* C2 as amended: a call of process_pdf with the same uploaded-file object *)
(* as an earlier completed call, not evicted since, invokes tabula.read_pdf*)
(* no further time and returns the earlier call's result.                  *)
C2_OncePerUpload == [][C2_Step]_vars

C2_Witness ==
    /\ run.call = "hit"
    /\ run.result # <<>>
    /\ calls[run.file[1].id].reads = 1

(* C3 as claimed: no failed extraction (a None result) is held in the      *)
(* cache.                                                                  *)
C3_FailureNeverCached == \A i \in 1..Len(cache) : cache[i].result # <<>>

C4_Step ==
    (/\ run'.file # <<>>
     /\ ~EndsWith(run'.file[1].name, DotCsv)
     /\ ~EndsWith(run'.file[1].name, DotPdf))
    => /\ run'.shown = <<"error:Unsupported file format. Please upload a CSV or PDF file.">>
       /\ run'.result = <<>>
       /\ run'.call = "none"
       /\ run'.fig = <<>> /\ run'.recs = <<>> /\ run'.event = <<>>
       /\ cache' = cache
       /\ calls' = calls
       /\ pc' = pc

(* C4: a run whose document name ends in neither ".csv" nor ".pdf" shows   *)
(* the unsupported-format error, yields no dataset, invokes neither parser *)
(* and leaves the extraction cache unchanged.                              *)
C4_UnsupportedFormat == [][C4_Step]_vars

C4_Witness ==
    /\ run.file # <<>>
    /\ run.file[1].name = <<"R", ".", "P", "D", "F">>
    /\ run.shown # <<>>

IsNumeric(c) == c.dtype \in {"int64", "float64"}

NumericNames(d) == {d.columns[i].name : i \in {j \in 1..Len(d.columns) : IsNumeric(d.columns[j])}}

AllNames(d) == {d.columns[i].name : i \in 1..Len(d.columns)}

FieldReads ==
    {"selectbox:X-Axis", "selectbox:Y-Axis", "selectbox:Z-Axis", "selectbox:Category Column"}

(* C5: on a dataset without numeric columns create_dashboard reports the   *)
(* error whatever the chart kind, before any field is read: no axis, z or  *)
(* category selection, no chart and no chart-created event.                *)
C5_NoNumericColumns ==
    (/\ run.page = "Data Analytics"
     /\ run.result # <<>>
     /\ NumericNames(run.result[1]) = {})
    => /\ "error:No numeric columns found for visualization." \in Range(run.shown)
       /\ Range(run.shown) \cap FieldReads = {}
       /\ "plotly_chart" \notin Range(run.shown)
       /\ "insert_one" \notin Range(run.shown)
       /\ run.fig = <<>>
       /\ run.event = <<>>

C5_Witness ==
    /\ run.page = "Data Analytics"
    /\ run.result # <<>>
    /\ NumericNames(run.result[1]) = {}
    /\ run.chart_type = "Pie Chart"

(* C7: for every chart produced, the x and y fields selected are numeric   *)
(* columns (the pie chart is drawn from the y field and the category and   *)
(* takes no x), a z field is selected for the 3D scatter plot only and is  *)
(* numeric, a category field for the pie chart only and is a column of the *)
(* dataset, the figure carries exactly these fields, and the numeric       *)
(* columns are columns of the dataset.                                     *)
C7_ChartFields ==
    run.fig # <<>> =>
        LET f == run.fig[1]
            w == run.sel
            d == run.result[1]
        IN  /\ f.kind \in ChartTypes
            /\ w.x \in NumericNames(d) /\ w.y \in NumericNames(d)
            /\ f.y = w.y
            /\ f.x = IF f.kind = "Pie Chart" THEN NoField ELSE w.x
            /\ (w.z # NoField <=> f.kind = "3D Scatter Plot")
            /\ (w.z # NoField => w.z \in NumericNames(d))
            /\ f.z = w.z
            /\ (w.category # NoField <=> f.kind = "Pie Chart")
            /\ (w.category # NoField => w.category \in AllNames(d))
            /\ f.names = w.category
            /\ Range(numeric_columns(d)) \subseteq AllNames(d)
            /\ Range(numeric_columns(d)) = NumericNames(d)

C7_Witness ==
    /\ run.fig # <<>>
    /\ run.fig[1].kind = "Pie Chart"
    /\ run.fig[1].names = "category"
    /\ run.fig[1].y = "amount"

Advice(priority) ==
    CASE priority = "Savings" ->
            <<"Allocate 20% of your income to savings.",
              "Track your fixed expenses to maximize savings.">>
      [] priority = "Investments" ->
            <<"Explore SIPs and mutual funds for growth.",
              "Consider diversifying into low-risk bonds.">>
      [] priority = "Expenses" ->
            <<"Identify areas where overspending occurs.",
              "Set a monthly budget for each expense category.">>

(* C8: whatever the dataset and however often the page is run, the         *)
(* recommendations shown for a priority are exactly the two fixed strings  *)
(* of that priority, in the fixed order.                                   *)
C8_FixedAdvice ==
    (run.page = "Recommendations" /\ run.result # <<>>) =>
        /\ run.event # <<>>
        /\ run.event[1].priority \in Priorities
        /\ run.recs = Advice(run.event[1].priority)

C8_Witness ==
    /\ run.page = "Recommendations"
    /\ run.result # <<>>
    /\ run.result[1].nrows = 2
    /\ run.recs = <<"Allocate 20% of your income to savings.",
                    "Track your fixed expenses to maximize savings.">>

LoggedLast(shown, produced) ==
    /\ Count(shown, "insert_one") = 1
    /\ shown[Len(shown)] = "insert_one"
    /\ \E i \in 1..(Len(shown) - 1) : shown[i] = produced

(* C9: a run that produces a chart, or recommendations, makes exactly one  *)
(* insert into the activity collection, carrying the chart kind or the     *)
(* priority, after the result has been shown; a run that produces neither  *)
(* (unsupported format, failed extraction, no numeric columns) makes none. *)
C9_OneEventAfterResult ==
    /\ run.fig # <<>> =>
          /\ run.event = <<[type |-> "Chart Created", chart_type |-> run.fig[1].kind]>>
          /\ LoggedLast(run.shown, "plotly_chart")
    /\ run.recs # <<>> =>
          /\ Len(run.event) = 1
          /\ run.event[1].type = "Recommendations Page"
          /\ run.recs = Advice(run.event[1].priority)
          /\ LoggedLast(run.shown, "markdown:recommendation")
    /\ (run.fig = <<>> /\ run.recs = <<>>) =>
          /\ run.event = <<>>
          /\ "insert_one" \notin Range(run.shown)

C9_Witness ==
    /\ run.recs # <<>>
    /\ run.event # <<>>
    /\ run.call = "hit"

C10_Step ==
    /\ run'.page \in AppPages => authenticated[run'.session]
    /\ \A s \in Sessions :
          authenticated'[s] # authenticated[s] =>
              /\ authenticated'[s]
              /\ run'.session = s
              /\ run'.page = "Login"
              /\ run'.form # <<>>
              /\ \E d \in users :
                    /\ d.username = run'.form[1].username
                    /\ d.password.digest = Digest(run'.form[1].password, d.password.salt)
    /\ run'.page = "Sign Up" => authenticated' = authenticated

(* C10: authenticated starts false in every session, the application pages *)
(* run only in a session that is authenticated, and authenticated changes  *)
(* only to true, in a login submission of a stored username with a         *)
(* password that verifies against the stored hash.                         *)
C10_AuthenticatedOnly ==
    /\ \A s \in Sessions : ~authenticated[s]
    /\ [][C10_Step]_vars

C10_Witness ==
    /\ run.page = "Data Analytics"
    /\ run.fig # <<>>
    /\ authenticated[run.session]
    /\ \E s \in Sessions : ~authenticated[s]

====
